---- MODULE Spec2Model ----
(***************************************************************************)
(* Frame lifecycle of greed-rs: the RenderingContext (lazy resize and      *)
(* resilient swap-chain frame acquisition, rendering_context.rs) and the   *)
(* Context event handler (exit check, resize forwarding and the per-frame  *)
(* sequence, context.rs), driven by an Application capability              *)
(* (application.rs).                                                       *)
(*                                                                         *)
(* One action is one call of the closure given to event_loop.run: the      *)
(* handler runs to completion (or panics) before the next event is         *)
(* delivered.  `steps` is the ordered list of calls the handler made for   *)
(* the most recent event, `gpu_ops` the GPU operations it recorded.        *)
(***************************************************************************)
EXTENDS Naturals, Sequences, FiniteSets

\* Window dimensions are u32; the model draws them from 0..MaxDim.
MaxDim == 1
\* Swap chains are told apart by an identity that cycles through NumIds
\* values; one get_current_frame call creates at most two swap chains.
NumIds == 3
\* Cap on the count of resize_request calls since the last acquisition call.
MaxReq == 3
\* Cap on the number of passes the capability's render hook records itself.
MaxAppPasses == 1

Dim == 0..MaxDim
Sizes == [width : Dim, height : Dim]
NoSize == [width |-> MaxDim + 1, height |-> MaxDim + 1]

Outcomes == {"Ok", "Err"}
Colors == {"BLACK", "OTHER"}
Capabilities == {"default", "custom"}

VARIABLES
    rendering_context,  \* [device, queue, sc_desc, swap_chain, resize]
    app,                \* [kind, exit, color]: the Application instance
    control_flow,       \* "Poll" | "Exit"
    panicked,           \* TRUE once an expect() failed: the process is gone
    event,              \* the event most recently handled
    steps,              \* calls made by the most recent handle_event, in order
    gpu_ops,            \* GPU operations recorded by the most recent frame
    hookExit,           \* is_exit after each hook the handler called, in order
    acq,                \* what the most recent get_current_frame call did
    exits,              \* how many times control_flow was set to Exit
    reqCount,           \* resize_request calls since the last acquisition call
    lastReq             \* the size of the most recent resize_request

vars == <<rendering_context, app, control_flow, panicked, event, steps,
          gpu_ops, hookExit, acq, exits, reqCount, lastReq>>

----------------------------------------------------------------------------
(* rendering_context.rs *)

\* device.create_swap_chain(&surface, &sc_desc): a new swap chain of the
\* size the descriptor holds now.
create_swap_chain(rc) ==
    [size |-> rc.sc_desc, id |-> (rc.swap_chain.id + 1) % NumIds]

resize_request_keeps_flag(rc, width, height) ==
    [rc EXCEPT !.sc_desc = [width |-> width, height |-> height]]

resize_request_eager(rc, width, height) ==
    LET rc1 == [rc EXCEPT !.sc_desc = [width |-> width, height |-> height]]
    IN  [rc1 EXCEPT !.swap_chain = create_swap_chain(rc1), !.resize = FALSE]

resize_request_swapped(rc, width, height) ==
    [rc EXCEPT !.sc_desc = [width |-> height, height |-> width],
               !.resize = TRUE]

resize_request(rc, width, height) ==
    [rc EXCEPT !.sc_desc = [width |-> width, height |-> height],
               !.resize = TRUE]

NoFrame == [size |-> NoSize, id |-> NumIds]

\* The result of one get_current_frame call: the context afterwards, the
\* calls made, the sizes of the swap chains created, the frame returned
\* (NoFrame when the call panicked).
AcqResult(rc, log, made, frame, panic) ==
    [rc |-> rc, log |-> log, reconfigs |-> made, frame |-> frame,
     panic |-> panic]

get_current_frame_skips_pending(rc, first, second) ==
    LET rc1 == [rc EXCEPT !.resize = FALSE]
        rc2 == [rc1 EXCEPT !.swap_chain = create_swap_chain(rc1)]
    IN  IF first = "Ok"
        THEN AcqResult(rc1, <<"acquire_ok">>, <<>>, rc1.swap_chain, FALSE)
        ELSE IF second = "Ok"
        THEN AcqResult(rc2,
                       <<"acquire_err", "create_swap_chain", "acquire_ok">>,
                       <<rc2.swap_chain.size>>, rc2.swap_chain, FALSE)
        ELSE AcqResult(rc2,
                       <<"acquire_err", "create_swap_chain", "acquire_err", "panic">>,
                       <<rc2.swap_chain.size>>, NoFrame, TRUE)

get_current_frame_always_reconfigures(rc, first, second) ==
    LET rc1 == [rc EXCEPT !.swap_chain = create_swap_chain(rc),
                          !.resize = FALSE]
        log1 == <<"create_swap_chain">>
        made1 == <<rc1.swap_chain.size>>
        rc2 == [rc1 EXCEPT !.swap_chain = create_swap_chain(rc1)]
    IN  IF first = "Ok"
        THEN AcqResult(rc1, log1 \o <<"acquire_ok">>, made1,
                       rc1.swap_chain, FALSE)
        ELSE IF second = "Ok"
        THEN AcqResult(rc2,
                       log1 \o <<"acquire_err", "create_swap_chain", "acquire_ok">>,
                       Append(made1, rc2.swap_chain.size), rc2.swap_chain, FALSE)
        ELSE AcqResult(rc2,
                       log1 \o <<"acquire_err", "create_swap_chain", "acquire_err", "panic">>,
                       Append(made1, rc2.swap_chain.size), NoFrame, TRUE)

get_current_frame_no_retry_reconfigure(rc, first, second) ==
    LET rc1 == IF rc.resize
               THEN [rc EXCEPT !.swap_chain = create_swap_chain(rc),
                               !.resize = FALSE]
               ELSE rc
        log1 == IF rc.resize THEN <<"create_swap_chain">> ELSE <<>>
        made1 == IF rc.resize THEN <<rc1.swap_chain.size>> ELSE <<>>
    IN  IF first = "Ok"
        THEN AcqResult(rc1, log1 \o <<"acquire_ok">>, made1,
                       rc1.swap_chain, FALSE)
        ELSE IF second = "Ok"
        THEN AcqResult(rc1, log1 \o <<"acquire_err", "acquire_ok">>,
                       made1, rc1.swap_chain, FALSE)
        ELSE AcqResult(rc1, log1 \o <<"acquire_err", "acquire_err", "panic">>,
                       made1, NoFrame, TRUE)

get_current_frame_third_attempt(rc, first, second) ==
    LET rc1 == IF rc.resize
               THEN [rc EXCEPT !.swap_chain = create_swap_chain(rc),
                               !.resize = FALSE]
               ELSE rc
        log1 == IF rc.resize THEN <<"create_swap_chain">> ELSE <<>>
        made1 == IF rc.resize THEN <<rc1.swap_chain.size>> ELSE <<>>
        rc2 == [rc1 EXCEPT !.swap_chain = create_swap_chain(rc1)]
    IN  IF first = "Ok"
        THEN AcqResult(rc1, log1 \o <<"acquire_ok">>, made1,
                       rc1.swap_chain, FALSE)
        ELSE IF second = "Ok"
        THEN AcqResult(rc2,
                       log1 \o <<"acquire_err", "create_swap_chain", "acquire_ok">>,
                       Append(made1, rc2.swap_chain.size), rc2.swap_chain, FALSE)
        ELSE AcqResult(rc2,
                       log1 \o <<"acquire_err", "create_swap_chain", "acquire_err",
                                 "acquire_err", "panic">>,
                       Append(made1, rc2.swap_chain.size), NoFrame, TRUE)

get_current_frame_swallows_failure(rc, first, second) ==
    LET rc1 == IF rc.resize
               THEN [rc EXCEPT !.swap_chain = create_swap_chain(rc),
                               !.resize = FALSE]
               ELSE rc
        log1 == IF rc.resize THEN <<"create_swap_chain">> ELSE <<>>
        made1 == IF rc.resize THEN <<rc1.swap_chain.size>> ELSE <<>>
        rc2 == [rc1 EXCEPT !.swap_chain = create_swap_chain(rc1)]
    IN  IF first = "Ok"
        THEN AcqResult(rc1, log1 \o <<"acquire_ok">>, made1,
                       rc1.swap_chain, FALSE)
        ELSE IF second = "Ok"
        THEN AcqResult(rc2,
                       log1 \o <<"acquire_err", "create_swap_chain", "acquire_ok">>,
                       Append(made1, rc2.swap_chain.size), rc2.swap_chain, FALSE)
        ELSE AcqResult(rc2,
                       log1 \o <<"acquire_err", "create_swap_chain", "acquire_err">>,
                       Append(made1, rc2.swap_chain.size), NoFrame, FALSE)

\* RenderingContext::get_current_frame.  first and second are what the
\* swap chain answers to the first and to the second acquisition attempt.
get_current_frame(rc, first, second) ==
    LET rc1 == IF rc.resize
               THEN [rc EXCEPT !.swap_chain = create_swap_chain(rc),
                               !.resize = FALSE]
               ELSE rc
        log1 == IF rc.resize THEN <<"create_swap_chain">> ELSE <<>>
        made1 == IF rc.resize THEN <<rc1.swap_chain.size>> ELSE <<>>
        rc2 == [rc1 EXCEPT !.swap_chain = create_swap_chain(rc1)]
    IN  IF first = "Ok"
        THEN AcqResult(rc1, log1 \o <<"acquire_ok">>, made1,
                       rc1.swap_chain, FALSE)
        ELSE IF second = "Ok"
        THEN AcqResult(rc2,
                       log1 \o <<"acquire_err", "create_swap_chain", "acquire_ok">>,
                       Append(made1, rc2.swap_chain.size), rc2.swap_chain, FALSE)
        ELSE AcqResult(rc2,
                       log1 \o <<"acquire_err", "create_swap_chain", "acquire_err", "panic">>,
                       Append(made1, rc2.swap_chain.size), NoFrame, TRUE)

\* RenderingContext::setup: the descriptor takes the window's inner size,
\* the first swap chain is created from it, no resize is pending.
setup(size) ==
    [device |-> "device", queue |-> "queue", sc_desc |-> size,
     swap_chain |-> [size |-> size, id |-> 0], resize |-> FALSE]

----------------------------------------------------------------------------
(* application.rs *)

\* What a hook taking &mut self may leave is_exit() at.  The default hooks
\* are no-ops and the default is_exit is false.
HookChoices(a) == IF a.kind = "default" THEN {a.exit} ELSE BOOLEAN

\* How many passes of its own the render hook may record.
PassChoices(a) == IF a.kind = "default" THEN {0} ELSE 0..MaxAppPasses

hook(a, exitAfter) ==
    IF a.kind = "default" THEN a ELSE [a EXCEPT !.exit = exitAfter]

is_exit_always(a) == TRUE

is_exit(a) == a.exit

clear_color(a) == a.color

\* Application::new: a capability overriding nothing is never exiting and
\* clears to black.
Applications ==
    {[kind |-> "default", exit |-> FALSE, color |-> "BLACK"]}
    \cup [kind : {"custom"}, exit : BOOLEAN, color : Colors]

----------------------------------------------------------------------------
(* context.rs *)

Op(kind, load, color) == [kind |-> kind, load |-> load, color |-> color]

AppPasses(n) == [i \in 1..n |-> Op("app_pass", "Load", "none")]

frame_passes_no_clear(color, n) ==
    <<Op("app.render", "none", "none")>> \o AppPasses(n)
    \o <<Op("pass", "Load", "none"), Op("submit", "none", "none")>>

\* The GPU work of one frame, in recording order: the clear pass, the
\* capability's render call and the n passes it records, the overlay pass,
\* and the submission of the finished encoder.
frame_passes(color, n) ==
    <<Op("pass", "Clear", color), Op("app.render", "none", "none")>>
    \o AppPasses(n)
    \o <<Op("pass", "Load", "none"), Op("submit", "none", "none")>>

before_acquire_builds_ui_first ==
    <<"prepare_frame", "imgui.frame", "app.build_ui", "app.update",
      "get_current_frame">>

after_acquire_submits_twice ==
    <<"prepare_render", "create_command_encoder", "app.clear_color",
      "clear_pass", "app.render", "overlay_pass", "imgui_renderer.render",
      "submit", "submit">>

\* The calls of the redraw arm up to the acquisition, and after it.
before_acquire ==
    <<"prepare_frame", "app.update", "imgui.frame", "app.build_ui",
      "get_current_frame">>

after_acquire ==
    <<"prepare_render", "create_command_encoder", "app.clear_color",
      "clear_pass", "app.render", "overlay_pass", "imgui_renderer.render",
      "submit">>

NoAcq ==
    [called |-> FALSE, entryFlag |-> FALSE, entryReqs |-> 0,
     reconfigs |-> <<>>, frame |-> NoFrame]

\* What one handle_event call leaves behind.
Handled(rc, a, log, ops, exitLog, acquired, ret, panic) ==
    [rc |-> rc, app |-> a, steps |-> log, gpu_ops |-> ops,
     hookExit |-> exitLog, acq |-> acquired, ret |-> ret, panic |-> panic]

redraw_checks_exit_midframe(rc, a, in, s, x, reqs) ==
    IF ~in.prepare_ok
    THEN Handled(rc, a, s \o <<"prepare_frame", "panic">>, <<>>, x, NoAcq,
                 TRUE, TRUE)
    ELSE
      LET a1 == hook(a, in.update)
          a2 == hook(a1, in.build_ui)
          got == get_current_frame(rc, in.first, in.second)
          x2 == x \o <<is_exit(a1), is_exit(a2)>>
          s2 == s \o before_acquire \o got.log
          snap == [called |-> TRUE, entryFlag |-> rc.resize,
                   entryReqs |-> reqs, reconfigs |-> got.reconfigs,
                   frame |-> got.frame]
      IN  IF is_exit(a1)
          THEN Handled(rc, a1,
                       s \o <<"prepare_frame", "app.update", "app.is_exit",
                              "return_false">>,
                       <<>>, Append(x, TRUE), NoAcq, FALSE, FALSE)
          ELSE IF got.panic
          THEN Handled(got.rc, a2, s2, <<>>, x2, snap, TRUE, TRUE)
          ELSE
            LET a3 == hook(a2, in.render)
            IN  Handled(got.rc, a3, s2 \o after_acquire \o <<"return_true">>,
                        frame_passes(clear_color(a2), in.passes),
                        Append(x2, is_exit(a3)), snap, TRUE, FALSE)

\* The RedrawEventsCleared arm.  s and x are the calls and the is_exit
\* values of the handler so far, reqs the count of resize requests pending.
redraw(rc, a, in, s, x, reqs) ==
    IF ~in.prepare_ok
    THEN Handled(rc, a, s \o <<"prepare_frame", "panic">>, <<>>, x, NoAcq,
                 TRUE, TRUE)
    ELSE
      LET a1 == hook(a, in.update)
          a2 == hook(a1, in.build_ui)
          got == get_current_frame(rc, in.first, in.second)
          x2 == x \o <<is_exit(a1), is_exit(a2)>>
          s2 == s \o before_acquire \o got.log
          snap == [called |-> TRUE, entryFlag |-> rc.resize,
                   entryReqs |-> reqs, reconfigs |-> got.reconfigs,
                   frame |-> got.frame]
      IN  IF got.panic
          THEN Handled(got.rc, a2, s2, <<>>, x2, snap, TRUE, TRUE)
          ELSE
            LET a3 == hook(a2, in.render)
            IN  Handled(got.rc, a3, s2 \o after_acquire \o <<"return_true">>,
                        frame_passes(clear_color(a2), in.passes),
                        Append(x2, is_exit(a3)), snap, TRUE, FALSE)

dispatch_calls_app_resize(rc, a, ev, in, s, x, reqs) ==
    LET s2 == s \o <<"imgui_platform.handle_event">>
    IN  CASE ev.kind = "CloseRequested" ->
               Handled(rc, a, s2 \o <<"return_false">>, <<>>, x, NoAcq,
                       FALSE, FALSE)
          [] ev.kind = "Resized" ->
               Handled(resize_request(rc, ev.width, ev.height), a,
                       s2 \o <<"resize_request", "app.resize", "return_true">>,
                       <<>>, x, NoAcq, TRUE, FALSE)
          [] ev.kind = "RedrawEventsCleared" ->
               redraw(rc, a, in, s2, x, reqs)
          [] OTHER ->
               Handled(rc, a, s2 \o <<"return_true">>, <<>>, x, NoAcq,
                       TRUE, FALSE)

dispatch_redraws_on_resize(rc, a, ev, in, s, x, reqs) ==
    LET s2 == s \o <<"imgui_platform.handle_event">>
    IN  CASE ev.kind = "CloseRequested" ->
               Handled(rc, a, s2 \o <<"return_false">>, <<>>, x, NoAcq,
                       FALSE, FALSE)
          [] ev.kind = "Resized" ->
               redraw(resize_request(rc, ev.width, ev.height), a, in,
                      Append(s2, "resize_request"), x, reqs + 1)
          [] ev.kind = "RedrawEventsCleared" ->
               redraw(rc, a, in, s2, x, reqs)
          [] OTHER ->
               Handled(rc, a, s2 \o <<"return_true">>, <<>>, x, NoAcq,
                       TRUE, FALSE)

\* The match of handle_event, reached when the exit check let the event by.
dispatch(rc, a, ev, in, s, x, reqs) ==
    LET s2 == s \o <<"imgui_platform.handle_event">>
    IN  CASE ev.kind = "CloseRequested" ->
               Handled(rc, a, s2 \o <<"return_false">>, <<>>, x, NoAcq,
                       FALSE, FALSE)
          [] ev.kind = "Resized" ->
               Handled(resize_request(rc, ev.width, ev.height), a,
                       s2 \o <<"resize_request", "return_true">>, <<>>, x,
                       NoAcq, TRUE, FALSE)
          [] ev.kind = "RedrawEventsCleared" ->
               redraw(rc, a, in, s2, x, reqs)
          [] OTHER ->
               Handled(rc, a, s2 \o <<"return_true">>, <<>>, x, NoAcq,
                       TRUE, FALSE)

handle_event_no_exit_check(rc, a, ev, in, reqs) ==
    LET a1 == hook(a, in.handle_event)
    IN  dispatch(rc, a1, ev, in, <<"app.handle_event", "app.is_exit">>,
                 <<is_exit(a1)>>, reqs)

handle_event_falls_through(rc, a, ev, in, reqs) ==
    LET a1 == hook(a, in.handle_event)
        s1 == <<"app.handle_event", "app.is_exit">>
    IN  IF is_exit(a1)
        THEN LET r == dispatch(rc, a1, ev, in, s1 \o <<"return_false">>,
                               <<TRUE>>, reqs)
             IN  [r EXCEPT !.ret = FALSE]
        ELSE dispatch(rc, a1, ev, in, s1, <<FALSE>>, reqs)

handle_event_forwards_before_check(rc, a, ev, in, reqs) ==
    LET a1 == hook(a, in.handle_event)
        s1 == <<"app.handle_event", "imgui_platform.handle_event",
                "app.is_exit">>
    IN  IF is_exit(a1)
        THEN Handled(rc, a1, s1 \o <<"return_false">>, <<>>, <<TRUE>>,
                     NoAcq, FALSE, FALSE)
        ELSE dispatch(rc, a1, ev, in, <<"app.handle_event">>, <<FALSE>>, reqs)

handle_event_checks_before_hook(rc, a, ev, in, reqs) ==
    LET a1 == hook(a, in.handle_event)
        s1 == <<"app.is_exit", "app.handle_event">>
    IN  IF is_exit(a)
        THEN Handled(rc, a, <<"app.is_exit", "return_false">>, <<>>,
                     <<TRUE>>, NoAcq, FALSE, FALSE)
        ELSE dispatch(rc, a1, ev, in, s1, <<FALSE>>, reqs)

\* Context::handle_event: the capability's hook, the exit check, the match.
handle_event(rc, a, ev, in, reqs) ==
    LET a1 == hook(a, in.handle_event)
        s1 == <<"app.handle_event", "app.is_exit">>
    IN  IF is_exit(a1)
        THEN Handled(rc, a1, s1 \o <<"return_false">>, <<>>, <<TRUE>>,
                     NoAcq, FALSE, FALSE)
        ELSE dispatch(rc, a1, ev, in, s1, <<FALSE>>, reqs)

\* The closure of run_application on the handler's answer.
run_application(cf, ret) == IF ~ret THEN "Exit" ELSE cf

----------------------------------------------------------------------------
(* The event loop *)

NoEvent == [kind |-> "None", width |-> 0, height |-> 0]
Ev(kind) == [kind |-> kind, width |-> 0, height |-> 0]

\* Inputs of a handler that does not reach the redraw arm.
NoFrameInputs(e) ==
    [handle_event |-> e, prepare_ok |-> TRUE, update |-> FALSE,
     build_ui |-> FALSE, render |-> FALSE, passes |-> 0,
     first |-> "Ok", second |-> "Ok"]

Init ==
    /\ rendering_context \in {setup(sz) : sz \in Sizes}
    /\ app \in Applications
    /\ control_flow = "Poll"
    /\ panicked = FALSE
    /\ event = NoEvent
    /\ steps = <<>>
    /\ gpu_ops = <<>>
    /\ hookExit = <<>>
    /\ acq = NoAcq
    /\ exits = 0
    /\ reqCount = 0
    /\ lastReq = NoSize

\* One call of the event-loop closure on event ev with inputs in.
Deliver(ev, in) ==
    /\ control_flow = "Poll"
    /\ ~panicked
    /\ \E r \in {handle_event(rendering_context, app, ev, in, reqCount)} :
         \E requested \in
               {"resize_request" \in {r.steps[i] : i \in DOMAIN r.steps}} :
           /\ rendering_context' = r.rc
           /\ app' = r.app
           /\ steps' = r.steps
           /\ gpu_ops' = r.gpu_ops
           /\ hookExit' = r.hookExit
           /\ acq' = r.acq
           /\ panicked' = r.panic
           /\ control_flow' =
                  IF r.panic THEN control_flow
                  ELSE run_application(control_flow, r.ret)
           /\ exits' = IF ~r.panic /\ ~r.ret THEN exits + 1 ELSE exits
           /\ reqCount' = IF r.acq.called THEN 0
                          ELSE IF requested THEN reqCount + 1
                          ELSE reqCount
           /\ lastReq' = IF requested
                         THEN [width |-> ev.width, height |-> ev.height]
                         ELSE lastReq
    /\ event' = ev

CloseRequested ==
    \E e \in HookChoices(app) :
        Deliver(Ev("CloseRequested"), NoFrameInputs(e))

Resized ==
    /\ reqCount < MaxReq
    /\ \E e \in HookChoices(app), w \in Dim, h \in Dim :
           Deliver([kind |-> "Resized", width |-> w, height |-> h],
                   NoFrameInputs(e))

OtherEvent ==
    \E e \in HookChoices(app) : Deliver(Ev("Other"), NoFrameInputs(e))

\* The inputs of a redraw that are read: nothing after an exiting event
\* hook or a failed prepare_frame, no render hook after a failed
\* acquisition, no second answer after a first "Ok".
FrameInputs(a) ==
    {NoFrameInputs(e) : e \in HookChoices(a) \cap {TRUE}}
    \cup {[NoFrameInputs(e) EXCEPT !.prepare_ok = FALSE] :
              e \in HookChoices(a) \cap {FALSE}}
    \cup {[NoFrameInputs(FALSE) EXCEPT !.update = u, !.build_ui = b,
                                       !.first = "Err", !.second = "Err"] :
              u \in HookChoices(a), b \in HookChoices(a)}
    \cup {[handle_event |-> FALSE, prepare_ok |-> TRUE, update |-> u,
           build_ui |-> b, render |-> r, passes |-> n,
           first |-> o[1], second |-> o[2]] :
              u \in HookChoices(a), b \in HookChoices(a),
              r \in HookChoices(a), n \in PassChoices(a),
              o \in {<<"Ok", "Ok">>, <<"Err", "Ok">>}}

RedrawEventsCleared ==
    \E in \in FrameInputs(app) : Deliver(Ev("RedrawEventsCleared"), in)

Next == CloseRequested \/ Resized \/ OtherEvent \/ RedrawEventsCleared

Spec == Init /\ [][Next]_vars

----------------------------------------------------------------------------
(* Reading the record of the most recent handler *)

Has(s) == \E i \in DOMAIN steps : steps[i] = s
Count(s) == Cardinality({i \in DOMAIN steps : steps[i] = s})
Last == IF steps = <<>> THEN "none" ELSE steps[Len(steps)]
\* s occurs, and every occurrence of t comes after the first s.
Before(s, t) ==
    \E i \in DOMAIN steps :
        /\ steps[i] = s
        /\ \A j \in DOMAIN steps : steps[j] = t => i < j
\* The handler called get_current_frame and it returned a frame.
Acquired == acq.called /\ acq.frame # NoFrame
\* The acquisition failed once and the retry succeeded.
Transient == acq.called /\ Count("acquire_err") = 1 /\ Count("acquire_ok") = 1
FrameSteps ==
    {"prepare_frame", "app.update", "imgui.frame", "app.build_ui",
     "get_current_frame", "create_swap_chain", "acquire_ok", "acquire_err",
     "prepare_render", "create_command_encoder", "app.clear_color",
     "clear_pass", "app.render", "overlay_pass", "imgui_renderer.render",
     "submit"}

----------------------------------------------------------------------------
(* Claims *)

\* C1 as stated: a get_current_frame call that follows N >= 1 resize
\* requests performs exactly one surface reconfiguration, to the size of
\* the last request.
C1_ExactlyOneReconfiguration ==
    (acq.called /\ acq.entryReqs >= 1) =>
        /\ Len(acq.reconfigs) = 1
        /\ acq.reconfigs[1] = lastReq

\* C1 amended: a get_current_frame call that follows N >= 1 resize requests
\* performs exactly one reconfiguration before its first acquisition
\* attempt, and that is all when the first attempt succeeds; when the first
\* attempt fails it performs a second one; every reconfiguration of the call
\* is to the size of the last request.
C1_OneReconfigurationPerBurst ==
    (acq.called /\ acq.entryReqs >= 1) =>
        /\ Len(acq.reconfigs) = 1 + Count("acquire_err") - Count("panic")
        /\ Count("create_swap_chain") = Len(acq.reconfigs)
        /\ \A i \in DOMAIN acq.reconfigs : acq.reconfigs[i] = lastReq
        /\ Before("create_swap_chain", "acquire_ok")
        /\ Before("create_swap_chain", "acquire_err")
        /\ (~Has("acquire_err") => Len(acq.reconfigs) = 1)

C1_Witness ==
    /\ acq.called
    /\ acq.entryReqs >= 2
    /\ ~Has("acquire_err")
    /\ acq.reconfigs = <<lastReq>>
    /\ acq.frame.size = lastReq

\* C2 as stated: a get_current_frame call whose first attempt fails and
\* whose retry succeeds reconfigures the surface once and hands a valid
\* image to its caller, which goes on with the frame.
C2_TransientReconfiguresOnce ==
    Transient =>
        /\ Len(acq.reconfigs) = 1
        /\ Acquired
        /\ ~panicked

\* C2 amended: such a call reconfigures the surface exactly once between
\* the failed attempt and the retry, which is its only reconfiguration
\* unless a resize was pending at entry (then it had reconfigured once
\* before the first attempt as well); it returns a valid image of the
\* configured size and the frame runs on to submission, no panic.
C2_TransientRecovers ==
    Transient =>
        /\ Len(acq.reconfigs) = (IF acq.entryFlag THEN 2 ELSE 1)
        /\ Count("create_swap_chain") = Len(acq.reconfigs)
        /\ \E i \in DOMAIN steps :
               /\ steps[i] = "acquire_err"
               /\ steps[i + 1] = "create_swap_chain"
               /\ steps[i + 2] = "acquire_ok"
        /\ Acquired
        /\ acq.frame = rendering_context.swap_chain
        /\ acq.frame.size = rendering_context.sc_desc
        /\ ~panicked
        /\ control_flow = "Poll"
        /\ Has("app.render")
        /\ Last = "return_true"

C2_Witness ==
    /\ Transient
    /\ ~acq.entryFlag
    /\ Len(acq.reconfigs) = 1
    /\ Has("submit")

\* C3: a get_current_frame call makes at most two acquisition attempts; when
\* both fail the process has panicked at that point of the handler (nothing
\* recorded, nothing submitted, no answer to the event loop), and no event
\* is handled in a panicked process.
C3_EventuallyFatal ==
    /\ [](/\ Count("acquire_ok") + Count("acquire_err") <= 2
          /\ (Count("acquire_err") = 2 =>
                /\ panicked
                /\ Last = "panic"
                /\ acq.frame = NoFrame
                /\ gpu_ops = <<>>
                /\ ~Has("clear_pass") /\ ~Has("app.render")
                /\ ~Has("overlay_pass") /\ ~Has("submit")
                /\ ~Has("return_true") /\ ~Has("return_false")))
    /\ [][~panicked]_vars

C3_Witness ==
    /\ panicked
    /\ Count("acquire_err") = 2
    /\ steps[Len(steps) - 1] = "acquire_err"

\* C4: the GPU operations of a frame that reaches submission are, in this
\* order, one clear pass with the capability's clear color, the capability's
\* render call (and whatever passes it records), one overlay pass that
\* loads, one submit; no GPU operation is recorded by a handler that does
\* not submit.
C4_PassOrder ==
    /\ Has("submit") =>
         LET n == Len(gpu_ops)
         IN  /\ n >= 4
             /\ gpu_ops[1] = Op("pass", "Clear", clear_color(app))
             /\ gpu_ops[2] = Op("app.render", "none", "none")
             /\ \A i \in 3..(n - 2) : gpu_ops[i].kind = "app_pass"
             /\ gpu_ops[n - 1] = Op("pass", "Load", "none")
             /\ gpu_ops[n] = Op("submit", "none", "none")
             /\ Cardinality({i \in 1..n : gpu_ops[i].load = "Clear"}) = 1
             /\ Count("clear_pass") = 1 /\ Count("app.render") = 1
             /\ Count("overlay_pass") = 1 /\ Count("submit") = 1
             /\ Before("clear_pass", "app.render")
             /\ Before("app.render", "overlay_pass")
             /\ Before("overlay_pass", "submit")
    /\ ~Has("submit") => gpu_ops = <<>>

C4_Witness ==
    /\ Has("submit")
    /\ clear_color(app) = "OTHER"
    /\ Len(gpu_ops) = 4 + MaxAppPasses

\* C5: when is_exit() is true after the event hook, or the event is a
\* window-close request, handle_event returns false, the loop is in its
\* terminal state and no frame step ran for that event.
C5_ExitWithoutDrawing ==
    (event # NoEvent /\ (hookExit[1] \/ event.kind = "CloseRequested")) =>
        /\ Last = "return_false"
        /\ control_flow = "Exit"
        /\ ~panicked
        /\ \A i \in DOMAIN steps : steps[i] \notin FrameSteps
        /\ gpu_ops = <<>>
        /\ ~acq.called

C5_Witness ==
    /\ event.kind = "RedrawEventsCleared"
    /\ hookExit = <<TRUE>>
    /\ control_flow = "Exit"

\* C6: a window-close event handled while is_exit() is true terminates the
\* loop exactly once: the exit check answers false and returns, the close
\* arm is never reached, control_flow is set to Exit one time.
C6_TerminatesOnce ==
    /\ exits <= 1
    /\ (event.kind = "CloseRequested" /\ hookExit[1]) =>
         /\ Count("return_false") = 1
         /\ Last = "return_false"
         /\ exits = 1
         /\ control_flow = "Exit"
         /\ ~panicked

C6_Witness ==
    /\ event.kind = "CloseRequested"
    /\ hookExit = <<TRUE>>
    /\ exits = 1

\* C7: the swap chain is replaced only by a handler that is inside
\* get_current_frame; a handler that calls resize_request changes the
\* stored width and height and the pending flag, and nothing else of the
\* rendering context (swap chain, device and queue stay as they were).
C7_ReconfigureOnlyInAcquisition ==
    /\ [](Has("create_swap_chain") =>
            /\ acq.called
            /\ Before("get_current_frame", "create_swap_chain"))
    /\ [][/\ rendering_context'.swap_chain # rendering_context.swap_chain =>
               /\ acq'.called
               /\ event'.kind = "RedrawEventsCleared"
               /\ acq'.reconfigs # <<>>
          /\ event'.kind = "Resized" =>
               \/ rendering_context' = rendering_context
               \/ rendering_context' =
                      [rendering_context EXCEPT
                          !.sc_desc = [width |-> event'.width,
                                       height |-> event'.height],
                          !.resize = TRUE]
          /\ rendering_context'.device = rendering_context.device
          /\ rendering_context'.queue = rendering_context.queue]_vars

C7_Witness ==
    /\ event.kind = "Resized"
    /\ Has("resize_request")
    /\ rendering_context.resize
    /\ rendering_context.swap_chain.size # rendering_context.sc_desc
    /\ rendering_context.swap_chain.id = 0

\* C8: when get_current_frame returns an image and resize_request was ever
\* called before, the stored width and height, the live swap chain and the
\* image all have the most recently requested size.
C8_TracksLatestRequest ==
    (Acquired /\ lastReq # NoSize) =>
        /\ rendering_context.sc_desc = lastReq
        /\ rendering_context.swap_chain.size = lastReq
        /\ acq.frame.size = lastReq
        /\ acq.frame = rendering_context.swap_chain

C8_Witness ==
    /\ Acquired
    /\ acq.entryReqs >= 2
    /\ acq.frame.size = lastReq
    /\ lastReq # [width |-> 0, height |-> 0]

\* C9: the pending-resize flag goes up only in a handler that calls
\* resize_request and goes down only in a handler whose get_current_frame
\* call reconfigured the surface to the stored configuration; after any
\* get_current_frame call the flag is down; a call entered with the flag
\* down whose first attempt succeeds reconfigures nothing.
C9_FlagProtocol ==
    /\ [](acq.called =>
            /\ ~rendering_context.resize
            /\ (acq.entryFlag =>
                  /\ acq.reconfigs # <<>>
                  /\ acq.reconfigs[1] = rendering_context.sc_desc)
            /\ ((~acq.entryFlag /\ ~Has("acquire_err")) =>
                  /\ acq.reconfigs = <<>>
                  /\ ~Has("create_swap_chain")))
    /\ [][/\ (~rendering_context.resize /\ rendering_context'.resize) =>
               /\ event'.kind = "Resized"
               /\ steps'[Len(steps') - 1] = "resize_request"
          /\ (rendering_context.resize /\ ~rendering_context'.resize) =>
               /\ acq'.called
               /\ acq'.entryFlag
               /\ acq'.reconfigs # <<>>
               /\ acq'.reconfigs[1] = rendering_context.sc_desc
               /\ rendering_context'.sc_desc = rendering_context.sc_desc
               /\ rendering_context'.swap_chain.size =
                      rendering_context'.sc_desc]_vars

C9_Witness ==
    /\ acq.called
    /\ acq.entryFlag
    /\ ~rendering_context.resize
    /\ acq.reconfigs = <<rendering_context.sc_desc>>

\* C10: the capability's render hook is called only after an acquisition
\* attempt of the same handler succeeded (the last attempt before it), with
\* a frame of the live swap chain; a handler whose acquisition panicked
\* calls no hook after the failure.
C10_RenderSeesValidImage ==
    /\ Has("app.render") =>
         /\ Acquired
         /\ acq.frame = rendering_context.swap_chain
         /\ Count("app.render") = 1
         /\ \E i \in DOMAIN steps :
               /\ steps[i] = "acquire_ok"
               /\ \A j \in DOMAIN steps :
                     steps[j] = "app.render" => i < j
               /\ \A j \in DOMAIN steps :
                     steps[j] = "acquire_err" => j < i
    /\ (acq.called /\ ~Acquired) =>
         /\ panicked
         /\ Last = "panic"
         /\ ~Has("app.render")
         /\ ~Has("app.clear_color")
         /\ Len(hookExit) = 3

C10_Witness ==
    /\ Has("app.render")
    /\ Has("acquire_err")
    /\ Acquired
    /\ Last = "return_true"

\* The nine steps of a frame, in the order of the redraw arm.
FrameOrder ==
    <<"prepare_frame", "app.update", "app.build_ui", "get_current_frame",
      "prepare_render", "clear_pass", "app.render", "overlay_pass",
      "submit">>
Pos(s) == CHOOSE i \in DOMAIN steps : steps[i] = s
\* The handler ran a whole frame: each of the nine steps once, in order,
\* on an acquired image, and answered the event loop.
CompleteFrame ==
    /\ \A k \in DOMAIN FrameOrder : Count(FrameOrder[k]) = 1
    /\ \A k \in 1..(Len(FrameOrder) - 1) :
           Pos(FrameOrder[k]) < Pos(FrameOrder[k + 1])
    /\ Count("acquire_ok") = 1
    /\ Acquired
    /\ gpu_ops # <<>>
    /\ Last = "return_true"
    /\ ~panicked
\* The handler ended in one of the two fatal paths of a frame.
FatalFrame ==
    /\ panicked
    /\ Last = "panic"
    /\ Count("panic") = 1
    /\ \/ steps[Len(steps) - 1] = "prepare_frame"
       \/ Count("acquire_err") = 2
    /\ gpu_ops = <<>>
    /\ ~Has("submit")
    /\ ~Has("return_true") /\ ~Has("return_false")

\* C11: a handler that starts a frame (reaches prepare_frame) either runs
\* the nine steps once each, in order, to a single submission, or panics in
\* prepare_frame or in the second failed acquisition; a panicked process
\* handles no further event.
C11_AllOrFatal ==
    /\ [](Has("prepare_frame") =>
            /\ CompleteFrame \/ FatalFrame
            /\ \A k \in DOMAIN FrameOrder : Count(FrameOrder[k]) <= 1)
    /\ [][~panicked]_vars

C11_Witness ==
    /\ FatalFrame
    /\ steps[Len(steps) - 1] = "prepare_frame"
    /\ ~acq.called

\* C12 as stated: with a capability overriding no hook, every redraw-ready
\* event runs a complete frame without error whose clear pass is black, and
\* the loop terminates only on a window-close request.
C12_DefaultAlwaysCompletes ==
    (app.kind = "default" /\ event.kind = "RedrawEventsCleared") =>
        /\ CompleteFrame
        /\ gpu_ops[1] = Op("pass", "Clear", "BLACK")
        /\ control_flow = "Poll"

\* C12 amended: with a capability overriding no hook, every redraw-ready
\* event either runs a complete frame whose only recorded work is the black
\* clear pass, the (empty) render call, the overlay pass and the submit, or
\* ends in one of the fatal paths (prepare_frame failed, or the acquisition
\* failed twice); the loop terminates only on a window-close request.
C12_DefaultHookTolerance ==
    app.kind = "default" =>
        /\ event.kind = "RedrawEventsCleared" =>
             /\ CompleteFrame \/ FatalFrame
             /\ CompleteFrame =>
                  /\ gpu_ops = <<Op("pass", "Clear", "BLACK"),
                                 Op("app.render", "none", "none"),
                                 Op("pass", "Load", "none"),
                                 Op("submit", "none", "none")>>
                  /\ control_flow = "Poll"
        /\ \A i \in DOMAIN hookExit : ~hookExit[i]
        /\ control_flow = "Exit" => event.kind = "CloseRequested"
        /\ event.kind = "CloseRequested" => control_flow = "Exit"

C12_Witness ==
    /\ app.kind = "default"
    /\ event.kind = "RedrawEventsCleared"
    /\ CompleteFrame
    /\ gpu_ops[1].color = "BLACK"

\* C13: in every handler of a redraw-ready event that passed the exit
\* check, the frame steps that ran occur in the order prepare_frame,
\* update, build_ui, get_current_frame, prepare_render, clear pass, render,
\* overlay pass, submit, none of them without its predecessors; a pending
\* reconfiguration is the first thing get_current_frame does, before any
\* acquisition attempt.
C13_StepOrder ==
    (event.kind = "RedrawEventsCleared" /\ ~hookExit[1]) =>
        /\ Has("prepare_frame")
        /\ Pos("prepare_frame") = 4
        /\ \A k \in 2..Len(FrameOrder) :
               Has(FrameOrder[k]) =>
                   /\ Has(FrameOrder[k - 1])
                   /\ Pos(FrameOrder[k - 1]) < Pos(FrameOrder[k])
        /\ \A i \in DOMAIN steps :
               steps[i] \in {"acquire_ok", "acquire_err", "create_swap_chain"} =>
                   /\ Pos("get_current_frame") < i
                   /\ Has("prepare_render") => i < Pos("prepare_render")
        /\ acq.called =>
               /\ acq.entryFlag =>
                      steps[Pos("get_current_frame") + 1] = "create_swap_chain"
               /\ Before("get_current_frame", "acquire_ok")
               /\ (acq.entryFlag => Before("create_swap_chain", "acquire_ok"))
               /\ (acq.entryFlag => Before("create_swap_chain", "acquire_err"))

C13_Witness ==
    /\ event.kind = "RedrawEventsCleared"
    /\ acq.entryFlag
    /\ CompleteFrame
    /\ steps[Pos("get_current_frame") + 1] = "create_swap_chain"
    /\ steps[Pos("get_current_frame") + 2] = "acquire_ok"

\* C14: every handler calls the capability's handle_event hook first and
\* checks is_exit() right after it, before anything else; an event that is
\* neither window-close, resize nor redraw-ready, with is_exit() false,
\* leaves the rendering context as it was, records no GPU work, acquires
\* nothing and keeps the loop running.
C14_HookFirstOthersIgnored ==
    /\ [](event # NoEvent =>
            /\ steps[1] = "app.handle_event"
            /\ steps[2] = "app.is_exit"
            /\ Count("app.handle_event") = 1
            /\ Len(hookExit) >= 1)
    /\ [][(event'.kind = "Other" /\ ~hookExit'[1]) =>
            /\ rendering_context' = rendering_context
            /\ steps' = <<"app.handle_event", "app.is_exit",
                          "imgui_platform.handle_event", "return_true">>
            /\ gpu_ops' = <<>>
            /\ ~acq'.called
            /\ lastReq' = lastReq
            /\ control_flow' = "Poll"
            /\ ~panicked']_vars

C14_Witness ==
    /\ event.kind = "Other"
    /\ hookExit = <<FALSE>>
    /\ rendering_context.resize
    /\ Last = "return_true"
    /\ control_flow = "Poll"

\* C15: a handler of a resize event that passed the exit check calls
\* resize_request with the event's width and height and returns true: the
\* stored size is the event's, the flag is up, the swap chain is the one
\* from before, nothing is acquired, recorded or submitted, the loop runs on.
C15_ResizeDoesNotDraw ==
    /\ []((event.kind = "Resized" /\ ~hookExit[1]) =>
            /\ steps = <<"app.handle_event", "app.is_exit",
                         "imgui_platform.handle_event", "resize_request",
                         "return_true">>
            /\ rendering_context.sc_desc =
                   [width |-> event.width, height |-> event.height]
            /\ lastReq = rendering_context.sc_desc
            /\ rendering_context.resize
            /\ ~acq.called
            /\ gpu_ops = <<>>
            /\ control_flow = "Poll"
            /\ ~panicked)
    /\ [][(event'.kind = "Resized" /\ ~hookExit'[1]) =>
            rendering_context'.swap_chain = rendering_context.swap_chain]_vars

C15_Witness ==
    /\ event.kind = "Resized"
    /\ hookExit = <<FALSE>>
    /\ event.width # event.height
    /\ rendering_context.sc_desc.width = event.width
    /\ rendering_context.swap_chain.size # rendering_context.sc_desc

\* C16: no handler both calls resize_request and draws: a frame's handler
\* calls no resize_request, so the configuration its image was acquired
\* under is still the stored one at its submission; a resize handler leaves
\* the swap chain alone, and the size it stored is what the next
\* get_current_frame call reconfigures to before it acquires.
C16_FrameAtomicity ==
    /\ [](/\ Has("get_current_frame") => ~Has("resize_request")
          /\ Has("resize_request") =>
               /\ ~acq.called
               /\ ~Has("submit")
               /\ gpu_ops = <<>>
          /\ Has("submit") =>
               /\ acq.frame.size = rendering_context.sc_desc
               /\ acq.frame = rendering_context.swap_chain
               /\ ~rendering_context.resize)
    /\ [][/\ (\E i \in DOMAIN steps' : steps'[i] = "resize_request") =>
               rendering_context'.swap_chain = rendering_context.swap_chain
          /\ (acq'.called /\ rendering_context.resize) =>
               /\ acq'.reconfigs # <<>>
               /\ acq'.reconfigs[1] = rendering_context.sc_desc
               /\ rendering_context'.sc_desc = rendering_context.sc_desc]_vars

C16_Witness ==
    /\ Has("submit")
    /\ acq.entryFlag
    /\ acq.entryReqs >= 1
    /\ acq.frame.size = lastReq
    /\ acq.reconfigs = <<lastReq>>

\* C17: whenever the pending-resize flag is down, the live swap chain was
\* created with the stored width and height.
C17_FlagDownMeansConfigured ==
    ~rendering_context.resize =>
        rendering_context.swap_chain.size = rendering_context.sc_desc

C17_Witness ==
    /\ ~rendering_context.resize
    /\ acq.called
    /\ acq.entryFlag
    /\ rendering_context.swap_chain.id # 0
    /\ rendering_context.swap_chain.size = lastReq

\* is_exit() became true in update, build_ui or render of this handler,
\* after the exit check had let the event by.
ExitRaisedMidFrame ==
    /\ event.kind = "RedrawEventsCleared"
    /\ Len(hookExit) >= 2
    /\ ~hookExit[1]
    /\ \E i \in 2..Len(hookExit) : hookExit[i]

\* C18 as stated: when is_exit() becomes true during update, build_ui or
\* render, the frame still runs through submission and handle_event returns
\* true for it.
C18_MidFrameExitStillSubmits ==
    ExitRaisedMidFrame =>
        /\ CompleteFrame
        /\ control_flow = "Poll"

\* C18 amended: is_exit() is read once per handler, right after the event
\* hook.  When it becomes true during update, build_ui or render, the
\* handler does not return false: the frame runs through submission and
\* handle_event returns true, unless the acquisition fails twice and the
\* process panics; control_flow is set to Exit only by a handler whose
\* exit check, after its own event hook, saw true, or whose event is a
\* window-close request.
C18_ExitCheckedAtReceiptOnly ==
    /\ [](/\ event # NoEvent =>
               /\ Count("app.is_exit") = 1
               /\ steps[2] = "app.is_exit"
          /\ ExitRaisedMidFrame =>
               /\ CompleteFrame \/ (FatalFrame /\ Count("acquire_err") = 2)
               /\ ~Has("return_false")
               /\ control_flow = "Poll"
               /\ exits = 0
               /\ CompleteFrame => Len(hookExit) = 4)
    /\ [][control_flow' # control_flow =>
            /\ control_flow' = "Exit"
            /\ steps'[1] = "app.handle_event"
            /\ hookExit'[1] \/ event'.kind = "CloseRequested"
            /\ Last' = "return_false"
            /\ Len(hookExit') = 1]_vars

C18_Witness ==
    /\ CompleteFrame
    /\ hookExit = <<FALSE, TRUE, TRUE, TRUE>>
    /\ is_exit(app)
    /\ control_flow = "Poll"

\* Every call a handler of this event loop can make.
KnownSteps ==
    FrameSteps \cup {"app.handle_event", "app.is_exit",
                     "imgui_platform.handle_event", "resize_request",
                     "return_true", "return_false", "panic"}

\* C19: no handler calls the capability's resize hook; a resize event goes
\* to the capability through handle_event, the first call of the handler,
\* and to the rendering context through resize_request.
C19_ResizeHookNeverCalled ==
    /\ \A i \in DOMAIN steps : steps[i] \in KnownSteps /\ steps[i] # "app.resize"
    /\ event.kind = "Resized" =>
         /\ steps[1] = "app.handle_event"
         /\ ~hookExit[1] =>
              /\ Count("resize_request") = 1
              /\ Len(steps) = 5
              /\ Len(hookExit) = 1

C19_Witness ==
    /\ event.kind = "Resized"
    /\ steps[1] = "app.handle_event"
    /\ Has("resize_request")
    /\ lastReq = [width |-> event.width, height |-> event.height]

\* C20: a handler whose exit check sees true does nothing else with the
\* event: the rendering context is as before (a resize event's size is not
\* stored, the flag not raised), the overlay's input bridge is not called,
\* nothing is recorded.
C20_ExitSkipsCore ==
    [][hookExit'[1] =>
         /\ rendering_context' = rendering_context
         /\ lastReq' = lastReq
         /\ reqCount' = reqCount
         /\ steps' = <<"app.handle_event", "app.is_exit", "return_false">>
         /\ gpu_ops' = <<>>
         /\ ~acq'.called
         /\ control_flow' = "Exit"]_vars

C20_Witness ==
    /\ event.kind = "Resized"
    /\ hookExit = <<TRUE>>
    /\ rendering_context.sc_desc # [width |-> event.width, height |-> event.height]
    /\ ~rendering_context.resize
    /\ ~Has("imgui_platform.handle_event")

====
